---- MODULE Spec2Model ----
(***************************************************************************)
(* Model of the NLP parsing layer of react-native-nlp-calendar             *)
(* (src/src/parser.ts).  Texts are strings; a character is a string of     *)
(* length one, taken with SubSeq.  The regular expressions of the source   *)
(* are kept as syntax trees and run by a backtracking matcher that         *)
(* follows the priority order of the ECMAScript matcher.  A Date is a UTC  *)
(* day number and a minute of that day; the local fields are obtained      *)
(* through the zone offset tz (minutes east of UTC).                       *)
(***************************************************************************)
EXTENDS Integers, Sequences, FiniteSets, TLC

VARIABLES text, clock, now0, adv, tz, pc, result,
          showPicker, pickerYear, pickerMonth, rangeStart, rangeEnd, calls

\* the state of the NLPCalendar component besides its input text and result
picker == <<showPicker, pickerYear, pickerMonth, rangeStart, rangeEnd, calls>>

vars == <<text, clock, now0, adv, tz, pc, result, picker>>

-----------------------------------------------------------------------------
(* Characters and strings                                                  *)

Digits == {"0", "1", "2", "3", "4", "5", "6", "7", "8", "9"}

LowerLetters ==
  {"a", "b", "c", "d", "e", "f", "g", "h", "i", "j", "k", "l", "m",
   "n", "o", "p", "q", "r", "s", "t", "u", "v", "w", "x", "y", "z"}

UpperLetters ==
  {"A", "B", "C", "D", "E", "F", "G", "H", "I", "J", "K", "L", "M",
   "N", "O", "P", "Q", "R", "S", "T", "U", "V", "W", "X", "Y", "Z"}

\* \w of the regular expressions
WordChars == Digits \cup LowerLetters \cup UpperLetters \cup {"_"}

\* \s of the regular expressions, also what String.prototype.trim removes
SpaceChars == {" ", "\t", "\n"}

CharAt(s, i) == SubSeq(s, i, i)

LowerOf(c) ==
  CASE c = "A" -> "a" [] c = "B" -> "b" [] c = "C" -> "c" [] c = "D" -> "d"
    [] c = "E" -> "e" [] c = "F" -> "f" [] c = "G" -> "g" [] c = "H" -> "h"
    [] c = "I" -> "i" [] c = "J" -> "j" [] c = "K" -> "k" [] c = "L" -> "l"
    [] c = "M" -> "m" [] c = "N" -> "n" [] c = "O" -> "o" [] c = "P" -> "p"
    [] c = "Q" -> "q" [] c = "R" -> "r" [] c = "S" -> "s" [] c = "T" -> "t"
    [] c = "U" -> "u" [] c = "V" -> "v" [] c = "W" -> "w" [] c = "X" -> "x"
    [] c = "Y" -> "y" [] c = "Z" -> "z" [] OTHER -> c

\* the string is converted by halves
RECURSIVE toLowerCase(_)
toLowerCase(s) ==
  IF Len(s) = 0 THEN ""
  ELSE IF Len(s) = 1 THEN LowerOf(s)
  ELSE toLowerCase(SubSeq(s, 1, Len(s) \div 2))
         \o toLowerCase(SubSeq(s, Len(s) \div 2 + 1, Len(s)))

RECURSIVE TrimStart(_)
TrimStart(s) ==
  IF Len(s) > 0 /\ CharAt(s, 1) \in SpaceChars
  THEN TrimStart(SubSeq(s, 2, Len(s)))
  ELSE s

RECURSIVE TrimEnd(_)
TrimEnd(s) ==
  IF Len(s) > 0 /\ CharAt(s, Len(s)) \in SpaceChars
  THEN TrimEnd(SubSeq(s, 1, Len(s) - 1))
  ELSE s

\* as trim, but the text is taken as it is
trim_Identity(s) == s

trim(s) == TrimEnd(TrimStart(s))

DigitValue(c) ==
  CASE c = "0" -> 0 [] c = "1" -> 1 [] c = "2" -> 2 [] c = "3" -> 3
    [] c = "4" -> 4 [] c = "5" -> 5 [] c = "6" -> 6 [] c = "7" -> 7
    [] c = "8" -> 8 [] c = "9" -> 9

DigitChar(n) ==
  CASE n = 0 -> "0" [] n = 1 -> "1" [] n = 2 -> "2" [] n = 3 -> "3"
    [] n = 4 -> "4" [] n = 5 -> "5" [] n = 6 -> "6" [] n = 7 -> "7"
    [] n = 8 -> "8" [] n = 9 -> "9"

\* Every digit string of more than nine significant digits is read as Huge:
\* all such values put a Date beyond the range of time values.
Huge == 1000000000

RECURSIVE DecimalValue(_)
DecimalValue(s) ==
  IF Len(s) = 0 THEN 0
  ELSE 10 * DecimalValue(SubSeq(s, 1, Len(s) - 1)) + DigitValue(CharAt(s, Len(s)))

RECURSIVE DropZeros(_)
DropZeros(s) ==
  IF Len(s) > 0 /\ CharAt(s, 1) = "0" THEN DropZeros(SubSeq(s, 2, Len(s))) ELSE s

\* Number(s) for a string of decimal digits
Number(s) ==
  IF Len(DropZeros(s)) > 9 THEN Huge ELSE DecimalValue(DropZeros(s))

\* String(n) for a natural number
RECURSIVE String(_)
String(n) ==
  IF n < 10 THEN DigitChar(n) ELSE String(n \div 10) \o DigitChar(n % 10)

\* String.prototype.padStart(w, "0")
RECURSIVE padStart(_, _)
padStart(s, w) == IF Len(s) >= w THEN s ELSE padStart("0" \o s, w)

-----------------------------------------------------------------------------
(* Regular expressions                                                     *)

Lit(s)         == [t |-> "lit", s |-> s]
Cls(c)         == [t |-> "cls", c |-> c]
WB             == [t |-> "wb"]
Cat(a)         == [t |-> "cat", a |-> a]
Alt(a)         == [t |-> "alt", a |-> a]
Rep(r, lo, hi) == [t |-> "rep", r |-> r, lo |-> lo, hi |-> hi]
Grp(k, r)      == [t |-> "grp", k |-> k, r |-> r]
Opt(r)         == Rep(r, 0, 1)

\* hi of an unbounded quantifier
Unbounded == -1

\* a capture group that did not take part in the match is undefined (<<>>);
\* one that did holds <<the matched string>>
NoCaptures == <<<<>>, <<>>, <<>>>>

IsWordAt(s, i) == i >= 1 /\ i <= Len(s) /\ CharAt(s, i) \in WordChars

Fold(s, ic) == IF ic THEN toLowerCase(s) ELSE s

\* the sequences of ss joined in their order, by halves
RECURSIVE Flatten(_)
Flatten(ss) ==
  IF Len(ss) = 0 THEN <<>>
  ELSE IF Len(ss) = 1 THEN ss[1]
  ELSE Flatten(SubSeq(ss, 1, Len(ss) \div 2))
         \o Flatten(SubSeq(ss, Len(ss) \div 2 + 1, Len(ss)))

\* The subject of a match: the string s and, for the i flag, the string f
\* against which the pattern is compared (s with its letters in lower case).
Subject(s, ic) == [s |-> s, f |-> Fold(s, ic), ic |-> ic]

\* the number of characters of f after the first i, limit at most, that lie
\* in the class c without a break
RunLen(c, f, i, limit) ==
  CHOOSE n \in 0..limit :
    /\ \A j \in 1..n : CharAt(f, i + j) \in c
    /\ n = limit \/ CharAt(f, i + n + 1) \notin c

\* a quantified class that can take run characters: the greedy quantifier
\* tries the longest repetition first and gives back one character at a time
MRun(re, i, caps, run) ==
  IF run < re.lo THEN <<>>
  ELSE [k \in 1..(run - re.lo + 1) |-> [e |-> i + run - k + 1, c |-> caps]]

\* M(re, x, i, caps): the ways re matches the subject x after i consumed
\* characters, in the order the backtracking matcher tries them.
RECURSIVE M(_, _, _, _)
RECURSIVE MCat(_, _, _, _)
RECURSIVE MRep(_, _, _, _, _)

M(re, x, i, caps) ==
  CASE re.t = "cat" -> MCat(re.a, 1, x, <<[e |-> i, c |-> caps]>>)
    [] re.t = "wb" ->
         IF IsWordAt(x.f, i) # IsWordAt(x.f, i + 1)
         THEN <<[e |-> i, c |-> caps]>>
         ELSE <<>>
    [] re.t = "lit" ->
         IF /\ i + Len(re.s) <= Len(x.f)
            /\ CharAt(x.f, i + 1) = Fold(CharAt(re.s, 1), x.ic)
            /\ SubSeq(x.f, i + 1, i + Len(re.s)) = Fold(re.s, x.ic)
         THEN <<[e |-> i + Len(re.s), c |-> caps]>>
         ELSE <<>>
    [] re.t = "cls" ->
         IF i < Len(x.f) /\ CharAt(x.f, i + 1) \in re.c
         THEN <<[e |-> i + 1, c |-> caps]>>
         ELSE <<>>
    [] re.t = "alt" ->
         Flatten([k \in 1..Len(re.a) |-> M(re.a[k], x, i, caps)])
    [] re.t = "rep" ->
         IF re.r.t = "cls"
         THEN MRun(re, i, caps,
                   RunLen(re.r.c, x.f, i,
                          IF re.hi = Unbounded \/ re.hi > Len(x.f) - i
                          THEN Len(x.f) - i ELSE re.hi))
         ELSE MRep(re, 0, x, i, caps)
    [] re.t = "grp" ->
         LET rs == M(re.r, x, i, caps)
         IN  [k \in 1..Len(rs) |->
                [e |-> rs[k].e,
                 c |-> [rs[k].c EXCEPT ![re.k] = <<SubSeq(x.s, i + 1, rs[k].e)>>]]]

\* rs are the ways the elements of a before the n-th match, in the order
\* the matcher tries them; each is continued by the ways a[n] matches after it
MCat(a, n, x, rs) ==
  IF n > Len(a) \/ Len(rs) = 0 THEN rs
  ELSE MCat(a, n + 1, x,
            Flatten([k \in 1..Len(rs) |-> M(a[n], x, rs[k].e, rs[k].c)]))

\* greedy: one more iteration is tried before stopping
MRep(re, n, x, i, caps) ==
  LET more == IF re.hi = Unbounded \/ n < re.hi
              THEN LET rs == M(re.r, x, i, caps)
                   IN  Flatten([k \in 1..Len(rs) |->
                                  IF rs[k].e > i
                                  THEN MRep(re, n + 1, x, rs[k].e, rs[k].c)
                                  ELSE <<>>])
              ELSE <<>>
      stop == IF n >= re.lo THEN <<[e |-> i, c |-> caps]>> ELSE <<>>
  IN  more \o stop

NoMatch == [found |-> FALSE, index |-> 0, e |-> 0, c |-> NoCaptures]

\* RegExp.prototype.exec from position from: the leftmost match, and among
\* the matches that start there the first in priority order (rs are the
\* matches that start at from).  The positions lo..hi are tried in their
\* order, the lower half of them before the upper half.
ExecAt(from, rs) ==
  IF Len(rs) > 0
  THEN [found |-> TRUE, index |-> from, e |-> rs[1].e, c |-> rs[1].c]
  ELSE NoMatch

RECURSIVE ExecBetween(_, _, _, _)
ExecOr(m, re, x, lo, hi) == IF m.found THEN m ELSE ExecBetween(re, x, lo, hi)

ExecBetween(re, x, lo, hi) ==
  IF lo > hi THEN NoMatch
  ELSE IF lo = hi THEN ExecAt(lo, M(re, x, lo, NoCaptures))
  ELSE ExecOr(ExecBetween(re, x, lo, (lo + hi) \div 2),
              re, x, (lo + hi) \div 2 + 1, hi)

ExecFrom(re, x, from) == ExecBetween(re, x, from, Len(x.s))

\* String.prototype.match with a regular expression without the g flag
match(s, re, ic) == ExecFrom(re, Subject(s, ic), 0)

\* RegExp.prototype.test
test(re, s, ic) == match(s, re, ic).found

\* String.prototype.replace with a g-flagged regular expression and a fixed
\* replacement string (no pattern of the source matches the empty string);
\* m is the first match at or after from
RECURSIVE ReplaceFrom(_, _, _, _)
RECURSIVE ReplaceAt(_, _, _, _, _)
ReplaceAt(x, re, by, from, m) ==
  IF ~m.found \/ m.e = m.index THEN SubSeq(x.s, from + 1, Len(x.s))
  ELSE SubSeq(x.s, from + 1, m.index) \o by \o ReplaceFrom(x, re, by, m.e)

ReplaceFrom(x, re, by, from) == ReplaceAt(x, re, by, from, ExecFrom(re, x, from))

replace(s, re, ic, by) ==
  IF Len(s) = 0 THEN "" ELSE ReplaceFrom(Subject(s, ic), re, by, 0)

Defined(cap) == Len(cap) = 1

-----------------------------------------------------------------------------
(* Dates: ECMAScript time values at the granularity of one minute          *)

MinutesPerDay == 1440

\* time values are finite within 100,000,000 days of the epoch (TimeClip)
MaxTimeDays == 100000000

NaNDate == [valid |-> FALSE, day |-> 0, min |-> 0]

TimeClip(day, min) ==
  IF day < -MaxTimeDays \/ day > MaxTimeDays \/ (day = MaxTimeDays /\ min > 0)
  THEN NaNDate
  ELSE [valid |-> TRUE, day |-> day, min |-> min]

\* days from 0000-03-01 to March 1 of year yy, proleptic Gregorian calendar
DaysBeforeYear(yy) ==
  (yy \div 400) * 146097 + (yy % 400) * 365 + (yy % 400) \div 4 - (yy % 400) \div 100

\* day number of the first day of month mo (0..11) of year y; day 0 is
\* 1970-01-01, and the year is counted from March
DayFromYearMonth(y, mo) ==
  DaysBeforeYear(IF mo <= 1 THEN y - 1 ELSE y)
  + (153 * (IF mo <= 1 THEN mo + 10 ELSE mo - 2) + 2) \div 5 - 719468

\* MakeDay(year, month, date): month and date may lie outside their ranges
MakeDay(year, month, date) ==
  DayFromYearMonth(year + month \div 12, month % 12) + date - 1

\* year, month (0..11) and date (1..31) of a day number: by the 400-year era,
\* the day of the era doe, the year of the era yoe, the day doy of the year
\* counted from March, and the month mp counted from March
CivilFromMp(y, doy, mp) ==
  [year  |-> y + (IF mp >= 10 THEN 1 ELSE 0),
   month |-> IF mp < 10 THEN mp + 2 ELSE mp - 10,
   date  |-> doy - (153 * mp + 2) \div 5 + 1]

CivilFromDoy(y, doy) == CivilFromMp(y, doy, (5 * doy + 2) \div 153)

CivilFromYoe(era, doe, yoe) ==
  CivilFromDoy(yoe + era * 400, doe - (365 * yoe + yoe \div 4 - yoe \div 100))

CivilFromDoe(era, doe) ==
  CivilFromYoe(era, doe,
               (doe - doe \div 1460 + doe \div 36524 - doe \div 146096) \div 365)

CivilFromDay(z) == CivilFromDoe((z + 719468) \div 146097, (z + 719468) % 146097)

\* 1970-01-01 was a Thursday; 0 = Sunday
WeekDay(day) == (day + 4) % 7

\* local day number and local minute of the day of a valid Date
LocalDay(d, zone) == d.day + (d.min + zone) \div MinutesPerDay
LocalMin(d, zone) == (d.min + zone) % MinutesPerDay

\* the Date of a local day and local minute of the day
FromLocal(lday, lmin, zone) ==
  TimeClip(lday + (lmin - zone) \div MinutesPerDay, (lmin - zone) % MinutesPerDay)

getDate(d, zone)     == CivilFromDay(LocalDay(d, zone)).date
getMonth(d, zone)    == CivilFromDay(LocalDay(d, zone)).month
getFullYear(d, zone) == CivilFromDay(LocalDay(d, zone)).year
getDay(d, zone)      == WeekDay(LocalDay(d, zone))

\* Date.prototype.setDate; c is the local year, month and date of d
SetDateOf(c, d, date, zone) ==
  FromLocal(MakeDay(c.year, c.month, date), LocalMin(d, zone), zone)

setDate(d, date, zone) == SetDateOf(CivilFromDay(LocalDay(d, zone)), d, date, zone)

\* new Date(year, month, date): local midnight; a year 0..99 means 1900 + year
NewDate(year, month, date, zone) ==
  FromLocal(MakeDay(IF year >= 0 /\ year <= 99 THEN 1900 + year ELSE year,
                    month, date), 0, zone)

Raised == [k |-> "throw", v |-> "RangeError"]
Null   == [k |-> "null", v |-> ""]
Str(v) == [k |-> "str", v |-> v]

\* the year of toISOString: four digits or, outside 0..9999, signed six
YearString(y) ==
  IF y >= 0 /\ y <= 9999 THEN padStart(String(y), 4)
  ELSE IF y < 0 THEN "-" \o padStart(String(-y), 6)
  ELSE "+" \o padStart(String(y), 6)

\* c is the UTC year, month and date, min the UTC minute of the day; seconds
\* and milliseconds are below the granularity of the model
IsoFormat(c, min) ==
  Str(YearString(c.year) \o "-" \o padStart(String(c.month + 1), 2)
        \o "-" \o padStart(String(c.date), 2)
        \o "T" \o padStart(String(min \div 60), 2)
        \o ":" \o padStart(String(min % 60), 2) \o ":00.000Z")

\* Date.prototype.toISOString: a RangeError for an invalid Date
toISOString(d) ==
  IF ~d.valid THEN Raised ELSE IsoFormat(CivilFromDay(d.day), d.min)

\* String.prototype.slice(0, n)
slice0(s, n) == SubSeq(s, 1, IF n < Len(s) THEN n ELSE Len(s))

\* iso is the value or the exception of toISOString
SliceDate(iso) == IF iso.k = "throw" THEN iso ELSE Str(slice0(iso.v, 10))

toISODate(d) == SliceDate(toISOString(d))

offsetDate(days, now, zone) == setDate(now, getDate(now, zone) + days, zone)

-----------------------------------------------------------------------------
(* The parser                                                              *)

Sp1 == Rep(Cls(SpaceChars), 1, Unbounded)   \* \s+
Sp0 == Rep(Cls(SpaceChars), 0, Unbounded)   \* \s*
D(lo, hi) == Rep(Cls(Digits), lo, hi)       \* \d{lo,hi}

WEEKDAY_INDEX(w) ==
  CASE w = "sunday" -> 0 [] w = "monday" -> 1 [] w = "tuesday" -> 2
    [] w = "wednesday" -> 3 [] w = "thursday" -> 4 [] w = "friday" -> 5
    [] w = "saturday" -> 6

MONTH_INDEX(m) ==
  CASE m = "january" -> 0 [] m = "jan" -> 0
    [] m = "february" -> 1 [] m = "feb" -> 1
    [] m = "march" -> 2 [] m = "mar" -> 2
    [] m = "april" -> 3 [] m = "apr" -> 3
    [] m = "may" -> 4
    [] m = "june" -> 5 [] m = "jun" -> 5
    [] m = "july" -> 6 [] m = "jul" -> 6
    [] m = "august" -> 7 [] m = "aug" -> 7
    [] m = "september" -> 8 [] m = "sep" -> 8 [] m = "sept" -> 8
    [] m = "october" -> 9 [] m = "oct" -> 9
    [] m = "november" -> 10 [] m = "nov" -> 10
    [] m = "december" -> 11 [] m = "dec" -> 11

WeekdayAlt ==
  Alt(<<Lit("monday"), Lit("tuesday"), Lit("wednesday"), Lit("thursday"),
        Lit("friday"), Lit("saturday"), Lit("sunday")>>)

MonthAlt ==
  Alt(<<Lit("january"), Lit("february"), Lit("march"), Lit("april"),
        Lit("may"), Lit("june"), Lit("july"), Lit("august"),
        Lit("september"), Lit("october"), Lit("november"), Lit("december"),
        Lit("jan"), Lit("feb"), Lit("mar"), Lit("apr"), Lit("jun"),
        Lit("jul"), Lit("aug"), Lit("sep"), Lit("sept"), Lit("oct"),
        Lit("nov"), Lit("dec")>>)

ReToday     == Cat(<<WB, Lit("today"), WB>>)
ReTomorrow  == Cat(<<WB, Lit("tomorrow"), WB>>)
ReYesterday == Cat(<<WB, Lit("yesterday"), WB>>)
ReInDays ==
  Cat(<<WB, Lit("in"), Sp1, Grp(1, D(1, Unbounded)), Sp1,
        Lit("day"), Opt(Lit("s")), WB>>)
ReNextWeekday == Cat(<<WB, Lit("next"), Sp1, Grp(1, WeekdayAlt), WB>>)

\* daysUntil of resolveRelativeDate: (target - today + 7) % 7 || 7
daysUntil(target, today) ==
  IF (target - today + 7) % 7 = 0 THEN 7 ELSE (target - today + 7) % 7

\* resolveRelativeDate after its tests of the day words: the branches of
\* inDaysMatch and nextWeekdayMatch.  now1 and now2 are the first and the
\* second reading of the clock that the call makes (new Date() of the matched
\* branch, then that of offsetDate).
resolveNextWeekday(nextWeekdayMatch, now1, now2, zone) ==
  IF nextWeekdayMatch.found
  THEN toISODate(offsetDate(daysUntil(WEEKDAY_INDEX(nextWeekdayMatch.c[1][1]),
                                      getDay(now1, zone)),
                            now2, zone))
  ELSE Null

resolveInDays(inDaysMatch, lower, now1, now2, zone) ==
  IF inDaysMatch.found
  THEN toISODate(offsetDate(Number(inDaysMatch.c[1][1]), now1, zone))
  ELSE resolveNextWeekday(match(lower, ReNextWeekday, FALSE), now1, now2, zone)

resolveRelativeLower(lower, now1, now2, zone) ==
  IF test(ReToday, lower, FALSE) THEN toISODate(now1)
  ELSE IF test(ReTomorrow, lower, FALSE) THEN toISODate(offsetDate(1, now1, zone))
  ELSE IF test(ReYesterday, lower, FALSE) THEN toISODate(offsetDate(-1, now1, zone))
  ELSE resolveInDays(match(lower, ReInDays, FALSE), lower, now1, now2, zone)

resolveRelativeDate(txt, now1, now2, zone) ==
  resolveRelativeLower(toLowerCase(txt), now1, now2, zone)

ReIso ==
  Cat(<<WB, Grp(1, D(4, 4)), Lit("-"), Grp(2, D(2, 2)), Lit("-"),
        Grp(3, D(2, 2)), WB>>)
ReUs ==
  Cat(<<WB, Grp(1, D(1, 2)), Lit("/"), Grp(2, D(1, 2)),
        Opt(Cat(<<Lit("/"), Grp(3, D(4, 4))>>)), WB>>)
ReMonthDay ==
  Cat(<<WB, Grp(1, MonthAlt), Sp1, Grp(2, D(1, 2)),
        Opt(Cat(<<Sp1, Grp(3, D(4, 4))>>)), WB>>)
ReDayMonth ==
  Cat(<<WB, Grp(1, D(1, 2)), Sp1, Grp(2, MonthAlt),
        Opt(Cat(<<Sp1, Grp(3, D(4, 4))>>)), WB>>)

\* the year of a date: the captured one or, without it, the current year
yearOf(cap, now, zone) ==
  IF Defined(cap) THEN Number(cap[1]) ELSE getFullYear(now, zone)

\* the four branches of resolveAbsoluteDate, each with its match
resolveDayMonth(dayMonthMatch, now, zone) ==
  IF dayMonthMatch.found
  THEN toISODate(NewDate(yearOf(dayMonthMatch.c[3], now, zone),
                         MONTH_INDEX(dayMonthMatch.c[2][1]),
                         Number(dayMonthMatch.c[1][1]), zone))
  ELSE Null

resolveMonthDay(monthDayMatch, lower, now, zone) ==
  IF monthDayMatch.found
  THEN toISODate(NewDate(yearOf(monthDayMatch.c[3], now, zone),
                         MONTH_INDEX(monthDayMatch.c[1][1]),
                         Number(monthDayMatch.c[2][1]), zone))
  ELSE resolveDayMonth(match(lower, ReDayMonth, FALSE), now, zone)

resolveUs(usMatch, lower, now, zone) ==
  IF usMatch.found
  THEN toISODate(NewDate(yearOf(usMatch.c[3], now, zone),
                         Number(usMatch.c[1][1]) - 1,
                         Number(usMatch.c[2][1]), zone))
  ELSE resolveMonthDay(match(lower, ReMonthDay, FALSE), lower, now, zone)

resolveIso(isoMatch, txt, lower, now, zone) ==
  IF isoMatch.found
  THEN toISODate(NewDate(Number(isoMatch.c[1][1]),
                         Number(isoMatch.c[2][1]) - 1,
                         Number(isoMatch.c[3][1]), zone))
  ELSE resolveUs(match(txt, ReUs, FALSE), lower, now, zone)

\* as resolveAbsoluteDate, but the numeric format is tried before the ISO
\* format
resolveAbsoluteDate_UsFirst(txt, now, zone) ==
  IF test(ReUs, txt, FALSE)
  THEN resolveUs(match(txt, ReUs, FALSE), toLowerCase(txt), now, zone)
  ELSE resolveIso(match(txt, ReIso, FALSE), txt, toLowerCase(txt), now, zone)

resolveAbsoluteDate(txt, now, zone) ==
  resolveIso(match(txt, ReIso, FALSE), txt, toLowerCase(txt), now, zone)

ReTime ==
  Cat(<<WB, Lit("at"), Sp1, Grp(1, D(1, 2)),
        Opt(Cat(<<Lit(":"), Grp(2, D(2, 2))>>)), Sp0,
        Opt(Grp(3, Alt(<<Lit("am"), Lit("pm")>>))), WB>>)

\* as meridiemHours, but noon counts as an afternoon hour to be shifted
meridiemHours_ShiftsNoon(hours, meridiem) ==
  LET h1 == IF meridiem = <<"pm">> /\ hours <= 12 THEN hours + 12 ELSE hours
  IN  IF meridiem = <<"am">> /\ h1 = 12 THEN 0 ELSE h1

\* hours after the two meridiem adjustments of extractTime
meridiemHours(hours, meridiem) ==
  LET h1 == IF meridiem = <<"pm">> /\ hours < 12 THEN hours + 12 ELSE hours
  IN  IF meridiem = <<"am">> /\ h1 = 12 THEN 0 ELSE h1

\* the time of extractTime for the match m of its pattern; <<>> stands for
\* undefined, <<t>> for the string t
timeOfMatch(m) ==
  IF ~m.found THEN <<>>
  ELSE <<padStart(String(meridiemHours(
                           Number(m.c[1][1]),
                           IF Defined(m.c[3]) THEN <<toLowerCase(m.c[3][1])>> ELSE <<>>)),
                  2)
         \o ":"
         \o padStart(String(IF Defined(m.c[2]) THEN Number(m.c[2][1]) ELSE 0), 2)>>

extractTime(txt) == timeOfMatch(match(txt, ReTime, TRUE))

ReTitleTime ==
  Cat(<<WB, Lit("at"), Sp1, D(1, 2), Opt(Cat(<<Lit(":"), D(2, 2)>>)), Sp0,
        Opt(Alt(<<Lit("am"), Lit("pm")>>)), WB>>)
ReTitleWeekday ==
  Cat(<<WB, Opt(Cat(<<Lit("next"), Sp1>>)), WeekdayAlt, WB>>)
\* as ReTitleDayWord, but 'tomorrow' is not among the words
ReTitleDayWord_NoTomorrow ==
  Cat(<<WB, Alt(<<Lit("today"), Lit("yesterday")>>), WB>>)

ReTitleDayWord ==
  Cat(<<WB, Alt(<<Lit("today"), Lit("tomorrow"), Lit("yesterday")>>), WB>>)
ReTitleInDays ==
  Cat(<<WB, Lit("in"), Sp1, D(1, Unbounded), Sp1, Lit("day"), Opt(Lit("s")), WB>>)
ReTitleMonthDay ==
  Cat(<<WB, MonthAlt, Sp1, D(1, 2), Opt(Cat(<<Sp1, D(4, 4)>>)), WB>>)
ReTitleDayMonth ==
  Cat(<<WB, D(1, 2), Sp1, MonthAlt, Opt(Cat(<<Sp1, D(4, 4)>>)), WB>>)
ReTitleIso ==
  Cat(<<WB, D(4, 4), Lit("-"), D(2, 2), Lit("-"), D(2, 2), WB>>)
ReTitleUs ==
  Cat(<<WB, D(1, 2), Lit("/"), D(1, 2), Opt(Cat(<<Lit("/"), D(4, 4)>>)), WB>>)
ReSpaces == Rep(Cls(SpaceChars), 2, Unbounded)

\* the title of extractTitle for the stripped text
\* as titleOr, but an empty remainder is kept
titleOr_NoFallback(stripped, txt) == stripped

titleOr(stripped, txt) == IF Len(stripped) > 0 THEN stripped ELSE trim(txt)

extractTitle(txt) ==
  titleOr(
    trim(
      replace(
        replace(
          replace(
            replace(
              replace(
                replace(
                  replace(
                    replace(
                      replace(txt, ReTitleTime, TRUE, ""),
                      ReTitleWeekday, TRUE, ""),
                    ReTitleDayWord, TRUE, ""),
                  ReTitleInDays, TRUE, ""),
                ReTitleMonthDay, TRUE, ""),
              ReTitleDayMonth, TRUE, ""),
            ReTitleIso, FALSE, ""),
          ReTitleUs, FALSE, ""),
        ReSpaces, FALSE, " ")),
    txt)

WarningText == "Could not recognise a date in the provided text."

\* The value of a call: a returned ParseResult (events, optional warning) or
\* the exception that left the call.
Returned(events, warning) == [raised |-> FALSE, events |-> events, warning |-> warning]
RaisedResult == [raised |-> TRUE, events |-> <<>>, warning |-> <<>>]

\* parseNaturalLanguage from the test of date on; the event object is built
\* from title, date and time only, so that reading its endTime gives
\* undefined (<<>>)
parseDated(trimmed, date) ==
  IF date.k = "null" THEN Returned(<<>>, <<WarningText>>)
  ELSE Returned(<<[title |-> extractTitle(trimmed), date |-> date.v,
                   time |-> extractTime(trimmed), endTime |-> <<>>]>>, <<>>)

\* as chosenDate, but the absolute date is taken when there is one
chosenDate_AbsoluteFirst(relativeDate, absoluteDate) ==
  IF absoluteDate.k # "null" THEN absoluteDate ELSE relativeDate

\* const date = relativeDate ?? absoluteDate
chosenDate(relativeDate, absoluteDate) ==
  IF relativeDate.k # "null" THEN relativeDate ELSE absoluteDate

\* parseNaturalLanguage after the two resolvers; an exception of theirs
\* leaves the call
parseResolved(trimmed, relativeDate, absoluteDate) ==
  IF relativeDate.k = "throw" \/ absoluteDate.k = "throw" THEN RaisedResult
  ELSE parseDated(trimmed, chosenDate(relativeDate, absoluteDate))

parseTrimmed(trimmed, now1, now2, zone) ==
  IF Len(trimmed) = 0 THEN Returned(<<>>, <<>>)
  ELSE parseResolved(trimmed,
                     resolveRelativeDate(trimmed, now1, now2, zone),
                     resolveAbsoluteDate(trimmed, now2, zone))

parseNaturalLanguage(txt, now1, now2, zone) == parseTrimmed(trim(txt), now1, now2, zone)

-----------------------------------------------------------------------------
(* Inputs of the calls                                                     *)

\* largest N of the texts 'in N days' that are enumerated one by one
MaxN == 3

\* number of consecutive days on which calls are made
ClockDays == 7

\* number of days per month that the absolute dates of the inputs take
DaysPerMonth == 1

\* 2026-11-02, a Monday
FirstClockDay == MakeDay(2026, 10, 2)

\* 2026-12-31
YearEndDay == MakeDay(2026, 11, 31)

At(day, min) == [valid |-> TRUE, day |-> day, min |-> min]

\* readings of the clock at which a call starts: 02:00 and 23:59 UTC
Clocks ==
  {At(FirstClockDay + k, m) : k \in 0..(ClockDays - 1), m \in {120, 1439}}
  \cup {At(YearEndDay, 1439)}

FewClocks == {At(FirstClockDay, 120), At(FirstClockDay, 1439), At(YearEndDay, 1439)}

\* zone offsets in minutes east of UTC: New York (EST), UTC, Kolkata
Zones == {-300, 0, 330}

\* minutes by which the clock may advance between two readings of one call
Advances == {0, 1}

\* the clock stands still during the calls in which it is read once
NoAdvance == {0}

Weekdays ==
  {"Monday", "tuesday", "Wednesday", "THURSDAY", "friday", "Saturday", "sunday"}

BlankTexts == {"", " ", "   ", " \t "}

GibberishTexts ==
  {"gibberish text without a date", "todays plan", "in days", "next",
   "call at 3pm", "march"}

DayWordTexts(w) ==
  CASE w = "today" -> {"today", "Stand-up today", "Call TODAY at 3pm"}
    [] w = "tomorrow" -> {"tomorrow", "Meeting tomorrow", "Book meeting Tomorrow at 10am"}
    [] w = "yesterday" -> {"yesterday", "Missed call yesterday", " YESTERDAY "}

LargeNs == {3000000, 99999999, 999999999}

InDaysNs == 0..MaxN \cup LargeNs

InDaysTexts(n) ==
  {"Doctor In " \o String(n) \o " days", "in  " \o String(n) \o " day at 9am"}

NextWeekdayTexts(w) ==
  IF w \in {"Monday", "Wednesday", "friday", "sunday"}
  THEN {"Gym next " \o w}
  ELSE {"Next  " \o w \o " at 6pm"}

AfterDaysTexts(n) ==
  {"Call after " \o String(n) \o " days", "after " \o String(n) \o " day"}
  \cup (IF n = 3 THEN {"Call after 3 days at 4pm to 5pm"} ELSE {})

BeforeDaysTexts(n) ==
  {"Event before " \o String(n) \o " days", "before " \o String(n) \o " day"}

NextMonthTexts == {"Review next month", "next month"}
NextYearTexts  == {"Conference next year", "next year"}

WeekdayTexts == UNION {NextWeekdayTexts(w) : w \in Weekdays}

RelativeTexts ==
  UNION {DayWordTexts(w) : w \in {"today", "tomorrow", "yesterday"}}
  \cup UNION {InDaysTexts(n) : n \in InDaysNs}
  \cup UNION {AfterDaysTexts(n) : n \in 1..MaxN}
  \cup UNION {BeforeDaysTexts(n) : n \in 1..MaxN}
  \cup NextMonthTexts \cup NextYearTexts

\* the names under which month m (1..12) is written in the inputs
MonthNames(m) ==
  CASE m = 1 -> {"January", "jan"} [] m = 2 -> {"february", "Feb"}
    [] m = 3 -> {"March", "mar"} [] m = 4 -> {"APRIL", "apr"}
    [] m = 5 -> {"May"} [] m = 6 -> {"June", "jun"}
    [] m = 7 -> {"july", "Jul"} [] m = 8 -> {"August", "aug"}
    [] m = 9 -> {"September", "sep", "Sept"} [] m = 10 -> {"October", "OCT"}
    [] m = 11 -> {"november", "Nov"} [] m = 12 -> {"December", "dec"}

Years  == {2024, 2025}
Months == 1..12

IsLeap(y) == (y % 4 = 0 /\ y % 100 # 0) \/ y % 400 = 0

DaysInMonth(y, m) ==
  IF m = 2 THEN (IF IsLeap(y) THEN 29 ELSE 28)
  ELSE IF m \in {4, 6, 9, 11} THEN 30 ELSE 31

\* the days of month m of year y that the inputs take: the last, then the
\* first, then every seventh
DaysOf(y, m) ==
  {d \in 1..DaysInMonth(y, m) :
     \/ d = DaysInMonth(y, m) /\ DaysPerMonth >= 1
     \/ d % 7 = 1 /\ d \div 7 < DaysPerMonth - 1}

\* days written without a year are taken from a common year
DaysOfAnyYear(m) == DaysOf(2025, m)

IsoText(y, m, d) ==
  padStart(String(y), 4) \o "-" \o padStart(String(m), 2) \o "-" \o padStart(String(d), 2)

IsoTexts(y, m, d) == {"Flight " \o IsoText(y, m, d)}

UsTexts(y, m, d) ==
  {"Event " \o padStart(String(m), 2) \o "/" \o padStart(String(d), 2) \o "/" \o String(y)}

MonthDayYearTexts(y, m, d) ==
  {"Dentist " \o n \o " " \o String(d) \o " " \o String(y) : n \in MonthNames(m)}

DayMonthYearTexts(y, m, d) ==
  {"Dentist " \o String(d) \o " " \o n \o " " \o String(y) : n \in MonthNames(m)}

UsNoYearTexts(m, d) == {"Party " \o String(m) \o "/" \o String(d)}

MonthDayTexts(m, d) == {"Dentist " \o n \o " " \o String(d) : n \in MonthNames(m)}

DayMonthTexts(m, d) == {String(d) \o " " \o n \o " dentist" : n \in MonthNames(m)}

ExplicitTexts(y, m, d) ==
  IsoTexts(y, m, d) \cup UsTexts(y, m, d)
  \cup MonthDayYearTexts(y, m, d) \cup DayMonthYearTexts(y, m, d)

NoYearTexts(m, d) ==
  UsNoYearTexts(m, d) \cup MonthDayTexts(m, d) \cup DayMonthTexts(m, d)

ExplicitDateTexts ==
  UNION {UNION {ExplicitTexts(y, m, d) : d \in DaysOf(y, m)} : y \in Years, m \in Months}

NoYearDateTexts ==
  UNION {UNION {NoYearTexts(m, d) : d \in DaysOfAnyYear(m)} : m \in Months}

\* largest hour written with am or pm, and largest hour written without
MaxHour12 == 12
MaxHour24 == 23

\* <<>> when the minutes are omitted
MinuteOpts == {<<>>, <<30>>}

Meridiems == {"am", "pm", "PM", " pm"}

HoursFor(mer) == IF mer = "" THEN 0..MaxHour24 ELSE 1..MaxHour12

TimeToken(h, mi, mer) ==
  String(h) \o (IF mi = <<>> THEN "" ELSE ":" \o padStart(String(mi[1]), 2)) \o mer

TimeText(intro, h, mi, mer) == "Call today " \o intro \o " " \o TimeToken(h, mi, mer)

TimeTexts ==
  {TimeText(intro, h, mi, "") : intro \in {"at", "from"}, h \in HoursFor(""), mi \in MinuteOpts}
  \cup UNION {{TimeText(intro, h, mi, mer) :
                 intro \in {"at", "from"}, h \in HoursFor(mer), mi \in MinuteOpts} :
              mer \in Meridiems}

\* a time followed by 'to' and a second time
RangeTexts ==
  {"Call today at 4pm to 5pm", "Call today at 11am to 1pm",
   "Workshop today from 9am to 5pm"}

\* digit sequences that the time pattern accepts and no clock shows
OddTimeTexts ==
  {"Call today at 25", "Call today at 10:75", "Call today at 99:99pm",
   "Call today at 13pm", "Call today at 0am"}

\* date components out of range
OutOfRangeDateTexts ==
  {"Event 13/45/2025", "Event 99/99/9999", "Flight 2025-02-30",
   "Flight 0050-13-32", "Dentist March 0"}

\* texts with two relative patterns, each with the day offset of the pattern
\* that comes first in the order today, tomorrow, yesterday, in N days, after
\* N days, before N days, next month, next year, next weekday
RelativeOrderCases ==
  {<<"tomorrow or today", 0>>, <<"yesterday or tomorrow", 1>>,
   <<"in 2 days or yesterday", -1>>, <<"next friday in 2 days", 2>>,
   <<"after 3 days in 1 day", 1>>, <<"next friday after 2 days", 2>>,
   <<"next year before 2 days", -2>>}

\* texts with two relative patterns of which 'next month' comes first in
\* that order, and of which 'next year' does
NextMonthFirstTexts == {"next friday next month", "next year next month"}
NextYearFirstTexts  == {"next friday next year"}

\* texts with a relative pattern and an absolute date, each with the
\* relative pattern alone and its day offset on a Monday
RelativeAbsoluteCases ==
  {<<"Meeting tomorrow 2025-03-15", "tomorrow", 1>>,
   <<"03/15/2025 call today", "today", 0>>,
   <<"Dentist March 15 2025 yesterday", "yesterday", -1>>,
   <<"in 2 days 15 March", "in 2 days", 2>>,
   <<"Gym next friday 2025-03-15", "next friday", 4>>}

RelativeAbsoluteTexts == {c[1] : c \in RelativeAbsoluteCases}

\* texts with absolute dates in two formats, each with the date, as written
\* and as YYYY-MM-DD, of the format that comes first in the order ISO,
\* numeric, 'Month Day', 'Day Month'
AbsoluteOrderCases ==
  {<<"Dentist March 5 2025 or 2025-04-15", "2025-04-15", "2025-04-15">>,
   <<"03/04/2025 or 2025-06-07", "2025-06-07", "2025-06-07">>,
   <<"7 May 2025 or 2025-06-07", "2025-06-07", "2025-06-07">>,
   <<"June 9 2025 or 03/04/2025", "03/04/2025", "2025-03-04">>,
   <<"7 May 2025 or 03/04/2025", "03/04/2025", "2025-03-04">>,
   <<"7 May 2025 or June 9 2025", "June 9 2025", "2025-06-09">>}

TwoAbsoluteTexts == {c[1] : c \in AbsoluteOrderCases}

TwoRelativeTexts ==
  {c[1] : c \in RelativeOrderCases} \cup NextMonthFirstTexts \cup NextYearFirstTexts

\* the calls that are made: a text, the reading of the clock at the start of
\* the call, the zone of the device, and the advance of the clock between the
\* two readings of the call
Calls ==
  (WeekdayTexts \X Clocks \X Zones \X Advances)
  \cup ((BlankTexts \cup GibberishTexts \cup RelativeTexts) \X FewClocks \X Zones \X NoAdvance)
  \cup (ExplicitDateTexts \X {At(FirstClockDay, 120)} \X Zones \X NoAdvance)
  \cup (NoYearDateTexts \X {At(FirstClockDay, 120), At(YearEndDay, 1439)} \X Zones \X NoAdvance)
  \cup ((TimeTexts \cup RangeTexts \cup OddTimeTexts \cup OutOfRangeDateTexts
            \cup TwoRelativeTexts)
          \X {At(FirstClockDay, 120)} \X {0} \X NoAdvance)
  \cup ((RelativeAbsoluteTexts \cup TwoAbsoluteTexts)
          \X {At(FirstClockDay, 120)} \X Zones \X NoAdvance)

-----------------------------------------------------------------------------
(* The specification: one call of parseNaturalLanguage per behaviour       *)

NoResult == [raised |-> FALSE, events |-> <<>>, warning |-> <<>>]

\* the callbacks invoked by the last handler and the effect after it, each
\* with its argument; <<>> when the callback was not invoked
NoCalls == [onParsed |-> <<>>, onDateChange |-> <<>>, onDateRangeChange |-> <<>>]

\* no component is rendered in the calls of the parser alone
NoPicker ==
  /\ showPicker = FALSE
  /\ pickerYear = getFullYear(clock, tz)
  /\ pickerMonth = getMonth(clock, tz)
  /\ rangeStart = <<>>
  /\ rangeEnd = <<>>
  /\ calls = NoCalls

Init ==
  /\ \E c \in Calls : text = c[1] /\ clock = c[2] /\ tz = c[3] /\ adv = c[4]
  /\ now0 = clock
  /\ pc = "idle"
  /\ result = NoResult
  /\ NoPicker

\* the clock after some more minutes
Later(t, more) ==
  At(t.day + (t.min + more) \div MinutesPerDay, (t.min + more) % MinutesPerDay)

\* parseNaturalLanguage(text): the first reading of the clock is the time of
\* the call, the second one is taken adv minutes later
Parse ==
  /\ pc = "idle"
  /\ clock' = Later(clock, adv)
  /\ result' = parseNaturalLanguage(text, clock, clock', tz)
  /\ now0' = clock
  /\ pc' = "done"
  /\ UNCHANGED <<text, tz, adv, picker>>

Next == Parse

Spec == Init /\ [][Next]_vars

-----------------------------------------------------------------------------
(* The NLPCalendar component: its text input, its list of events and its   *)
(* date picker                                                             *)

\* largest day of a month that is tapped, and number of months that the
\* picker is navigated away from the current month
MaxTapDay == 2
MaxNav == 1

getDaysInMonth(year, month, zone) == getDate(NewDate(year, month + 1, 0, zone), zone)

padTwo(n) == padStart(String(n), 2)

formatDateStr(year, month, day) ==
  String(year) \o "-" \o padTwo(month + 1) \o "-" \o padTwo(day)

\* the code unit of a character of a date string
CharCode(c) ==
  CASE c = "+" -> 43 [] c = "-" -> 45 [] c \in Digits -> 48 + DigitValue(c)

\* a < b on strings: by the first code unit that differs, a prefix first
RECURSIVE LessFrom(_, _, _)
LessFrom(a, b, i) ==
  IF i > Len(b) THEN FALSE
  ELSE IF i > Len(a) THEN TRUE
  ELSE IF CharAt(a, i) = CharAt(b, i) THEN LessFrom(a, b, i + 1)
  ELSE CharCode(CharAt(a, i)) < CharCode(CharAt(b, i))

StringLess(a, b) == LessFrom(a, b, 1)

AllDigits(s) == \A i \in 1..Len(s) : CharAt(s, i) \in Digits

\* /^(\d{4})-(\d{2})-(\d{2})$/
matchesDate(s) ==
  /\ Len(s) = 10
  /\ AllDigits(SubSeq(s, 1, 4)) /\ CharAt(s, 5) = "-"
  /\ AllDigits(SubSeq(s, 6, 7)) /\ CharAt(s, 8) = "-"
  /\ AllDigits(SubSeq(s, 9, 10))

\* the body of the component: const result = parseNaturalLanguage(inputText)
render(txt, now, zone) == parseNaturalLanguage(txt, now, now, zone)

\* the effect after a render: onParsed?.(result.events) unless the input is
\* blank; <<>> when onParsed is not invoked
effect(txt, res) == IF Len(trim(txt)) = 0 THEN <<>> ELSE <<res.events>>

\* a render that throws unmounts the component and runs no effect
Mounted == pc # "crashed"

\* the body of the component in a render with the input text and the clock
\* of the render before: parseNaturalLanguage computes the same result again
rerender == result

\* the render with result res after a handler that has invoked onDateChange
\* and onDateRangeChange as given, and the effect after it: the events are a
\* new array in every render, so the effect runs after each
Commit(res, dateArg, rangeArg) ==
  /\ result' = res
  /\ pc' = IF result'.raised THEN "crashed" ELSE "mounted"
  /\ calls' = [onParsed |-> IF result'.raised THEN <<>> ELSE effect(text', result'),
               onDateChange |-> dateArg, onDateRangeChange |-> rangeArg]
  /\ UNCHANGED <<clock, now0, adv, tz>>

\* texts given as the text prop or typed into the input
InputTexts ==
  {"", "   ", "Gym tomorrow", "no date", "in 3000000 days", "in 99999999 days"}

\* the sessions of the component: the text prop, the clock and the zone
Sessions == InputTexts \X {At(YearEndDay, 120)} \X {0}

\* the component after its first render and effect
CalendarInit ==
  /\ \E c \in Sessions : text = c[1] /\ clock = c[2] /\ tz = c[3]
  /\ now0 = clock
  /\ adv = 0
  /\ result = render(text, clock, tz)
  /\ pc = IF result.raised THEN "crashed" ELSE "mounted"
  /\ showPicker = FALSE
  /\ pickerYear = getFullYear(clock, tz)
  /\ pickerMonth = getMonth(clock, tz)
  /\ rangeStart = <<>>
  /\ rangeEnd = <<>>
  /\ calls = [onParsed |-> IF result.raised THEN <<>> ELSE effect(text, result),
              onDateChange |-> <<>>, onDateRangeChange |-> <<>>]

\* onChangeText={setInputText}; the modal covers the input while it is shown
ChangeText ==
  /\ Mounted /\ ~showPicker
  /\ \E t \in InputTexts \ {text} : text' = t
  /\ UNCHANGED <<showPicker, pickerYear, pickerMonth, rangeStart, rangeEnd>>
  /\ Commit(render(text', clock, tz), <<>>, <<>>)

\* result.events[0]?.date ?? null
parsedDate(res) == IF res.events # <<>> THEN <<res.events[1].date>> ELSE <<>>

openPickerAt(date) ==
  IF date # <<>> /\ matchesDate(date[1])
  THEN /\ pickerYear' = Number(SubSeq(date[1], 1, 4))
       /\ pickerMonth' = Number(SubSeq(date[1], 6, 7)) - 1
       /\ rangeStart' = date
  ELSE /\ pickerYear' = getFullYear(clock, tz)
       /\ pickerMonth' = getMonth(clock, tz)
       /\ rangeStart' = <<>>

\* the calendar icon; the modal covers it while it is shown
OpenPicker ==
  /\ Mounted /\ ~showPicker
  /\ openPickerAt(parsedDate(result))
  /\ rangeEnd' = <<>>
  /\ showPicker' = TRUE
  /\ text' = text
  /\ Commit(rerender, <<>>, <<>>)

\* as handleDayPress, but a day before the start completes the range as it is
handleDayPress_NoSwap(dateStr) ==
  IF rangeStart = <<>> \/ rangeEnd # <<>>
  THEN rangeStart' = <<dateStr>> /\ rangeEnd' = <<>>
  ELSE IF dateStr = rangeStart[1]
  THEN rangeStart' = <<>> /\ rangeEnd' = rangeEnd
  ELSE rangeEnd' = <<dateStr>> /\ rangeStart' = rangeStart

\* as handleDayPress, but a second tap on the start selects the range of
\* that one day
handleDayPress_RangeOnSame(dateStr) ==
  IF rangeStart = <<>> \/ rangeEnd # <<>>
  THEN rangeStart' = <<dateStr>> /\ rangeEnd' = <<>>
  ELSE IF dateStr = rangeStart[1]
  THEN rangeStart' = rangeStart /\ rangeEnd' = <<dateStr>>
  ELSE IF StringLess(dateStr, rangeStart[1])
  THEN rangeEnd' = rangeStart /\ rangeStart' = <<dateStr>>
  ELSE rangeEnd' = <<dateStr>> /\ rangeStart' = rangeStart

handleDayPress(dateStr) ==
  IF rangeStart = <<>> \/ rangeEnd # <<>>
  THEN rangeStart' = <<dateStr>> /\ rangeEnd' = <<>>
  ELSE IF dateStr = rangeStart[1]
  THEN rangeStart' = <<>> /\ rangeEnd' = rangeEnd
  ELSE IF StringLess(dateStr, rangeStart[1])
  THEN rangeEnd' = rangeStart /\ rangeStart' = <<dateStr>>
  ELSE rangeEnd' = <<dateStr>> /\ rangeStart' = rangeStart

\* the days of the month shown that are tapped
TapDays == 1..MaxTapDay \cap 1..getDaysInMonth(pickerYear, pickerMonth, tz)

DayPress ==
  /\ Mounted /\ showPicker
  /\ \E day \in TapDays : handleDayPress(formatDateStr(pickerYear, pickerMonth, day))
  /\ UNCHANGED <<text, showPicker, pickerYear, pickerMonth>>
  /\ Commit(rerender, <<>>, <<>>)

\* the arguments with which handleConfirm invokes the two callbacks
confirmedRange ==
  IF rangeStart # <<>> /\ rangeEnd # <<>>
  THEN <<[start |-> rangeStart[1], end |-> rangeEnd[1]]>> ELSE <<>>

\* as confirmedDate, but the start is also passed when the range is complete
confirmedDate_WithRange ==
  IF rangeStart # <<>> THEN rangeStart ELSE <<>>

confirmedDate ==
  IF rangeStart # <<>> /\ rangeEnd = <<>> THEN rangeStart ELSE <<>>

\* the Done button
Confirm ==
  /\ Mounted /\ showPicker
  /\ showPicker' = FALSE
  /\ UNCHANGED <<text, pickerYear, pickerMonth, rangeStart, rangeEnd>>
  /\ Commit(rerender, confirmedDate, confirmedRange)

\* as Cancel, but the selection is passed to the callbacks as by Done
Cancel_Reports ==
  /\ Mounted /\ showPicker
  /\ showPicker' = FALSE
  /\ UNCHANGED <<text, pickerYear, pickerMonth, rangeStart, rangeEnd>>
  /\ Commit(rerender, confirmedDate, confirmedRange)

\* the Cancel button and the request to close the modal
Cancel ==
  /\ Mounted /\ showPicker
  /\ showPicker' = FALSE
  /\ UNCHANGED <<text, pickerYear, pickerMonth, rangeStart, rangeEnd>>
  /\ Commit(rerender, <<>>, <<>>)

MonthNumber(year, month) == year * 12 + month

\* the months to which the picker is navigated
Navigable(n) ==
  /\ n >= MonthNumber(getFullYear(clock, tz), getMonth(clock, tz)) - MaxNav
  /\ n <= MonthNumber(getFullYear(clock, tz), getMonth(clock, tz)) + MaxNav

PrevMonth ==
  /\ Mounted /\ showPicker
  /\ Navigable(MonthNumber(pickerYear, pickerMonth) - 1)
  /\ pickerMonth' = IF pickerMonth = 0 THEN 11 ELSE pickerMonth - 1
  /\ pickerYear' = IF pickerMonth = 0 THEN pickerYear - 1 ELSE pickerYear
  /\ UNCHANGED <<text, showPicker, rangeStart, rangeEnd>>
  /\ Commit(rerender, <<>>, <<>>)

\* as NextMonth, but the year is kept after December
NextMonth_SameYear ==
  /\ Mounted /\ showPicker
  /\ Navigable(MonthNumber(pickerYear, pickerMonth) + 1)
  /\ pickerMonth' = IF pickerMonth = 11 THEN 0 ELSE pickerMonth + 1
  /\ pickerYear' = pickerYear
  /\ UNCHANGED <<text, showPicker, rangeStart, rangeEnd>>
  /\ Commit(rerender, <<>>, <<>>)

NextMonth ==
  /\ Mounted /\ showPicker
  /\ Navigable(MonthNumber(pickerYear, pickerMonth) + 1)
  /\ pickerMonth' = IF pickerMonth = 11 THEN 0 ELSE pickerMonth + 1
  /\ pickerYear' = IF pickerMonth = 11 THEN pickerYear + 1 ELSE pickerYear
  /\ UNCHANGED <<text, showPicker, rangeStart, rangeEnd>>
  /\ Commit(rerender, <<>>, <<>>)

CalendarNext ==
  \/ ChangeText \/ OpenPicker \/ DayPress \/ Confirm \/ Cancel
  \/ PrevMonth \/ NextMonth

CalendarSpec == CalendarInit /\ [][CalendarNext]_vars

-----------------------------------------------------------------------------
(* Vocabulary of the properties                                            *)

Done == pc = "done"

Events == result.events

\* the three outcomes of a call that returns
IsEmptyOutcome        == ~result.raised /\ Events = <<>> /\ result.warning = <<>>
IsUnrecognizedOutcome == ~result.raised /\ Events = <<>> /\ result.warning = <<WarningText>>
IsSuccessOutcome      == ~result.raised /\ Len(Events) = 1 /\ result.warning = <<>>

\* YYYY-MM-DD of a day number
IsoOfDay(z) ==
  LET c == CivilFromDay(z) IN IsoText(c.year, c.month + 1, c.date)

\* the day numbers that 'today' may denote: the UTC day and the local day of
\* either reading of the clock
Todays ==
  {now0.day, clock.day, LocalDay(now0, tz), LocalDay(clock, tz)}

\* the day numbers of 'now', as toISOString counts them
NowDays == {now0.day, clock.day}

OneEventDated(dates) == IsSuccessOutcome /\ Events[1].date \in dates

-----------------------------------------------------------------------------
(* Properties                                                              *)

\* C1: parseNaturalLanguage never raises: every call, whatever the text and
\* the reading of the clock, returns a ParseResult that is EMPTY,
\* UNRECOGNIZED or SUCCESS.
C1_NeverRaises ==
  Done => /\ ~result.raised
          /\ IsEmptyOutcome \/ IsUnrecognizedOutcome \/ IsSuccessOutcome

\* C2: blank is distinguished from unrecognized: a blank text gives no event
\* and no warning; a non-blank text without a date pattern gives no event and
\* the fixed, non-empty warning; a result with an event has no warning; and
\* there is never more than one event.
C2_BlankVsUnrecognized ==
  Done => /\ Len(Events) <= 1
          /\ text \in BlankTexts => Events = <<>> /\ result.warning = <<>>
          /\ text \in GibberishTexts =>
               Events = <<>> /\ result.warning = <<WarningText>> /\ Len(WarningText) > 0
          /\ Events # <<>> => result.warning = <<>>

C2_Witness ==
  /\ Done /\ text = "   " /\ ~result.raised
  /\ Events = <<>> /\ result.warning = <<>>

\* C3: relative day offsets: 'today', 'tomorrow', 'yesterday' and 'in N
\* day(s)', in any letter case, give one event dated the ISO date of now,
\* now + 1 day, now - 1 day and now + N days.
C3_RelativeDayOffsets ==
  Done =>
    /\ text \in DayWordTexts("today") => OneEventDated({IsoOfDay(z) : z \in NowDays})
    /\ text \in DayWordTexts("tomorrow") => OneEventDated({IsoOfDay(z + 1) : z \in NowDays})
    /\ text \in DayWordTexts("yesterday") => OneEventDated({IsoOfDay(z - 1) : z \in NowDays})
    /\ \A n \in InDaysNs :
         text \in InDaysTexts(n) => OneEventDated({IsoOfDay(z + n) : z \in NowDays})

\* C4: weekday wrap: 'next W' gives one event whose date falls on weekday W
\* and lies 1 to 7 days after today, 7 days when today is itself W.
C4_WeekdayWrap ==
  Done =>
    \A w \in Weekdays :
      text \in NextWeekdayTexts(w) =>
        \E today \in Todays, k \in 1..7 :
          /\ OneEventDated({IsoOfDay(today + k)})
          /\ WeekDay(today + k) = WEEKDAY_INDEX(toLowerCase(w))
          /\ WeekDay(today) = WEEKDAY_INDEX(toLowerCase(w)) => k = 7

\* C5: 'after N day(s)' gives one event dated now + N days and 'before N
\* day(s)' one dated now - N days, and the phrase is removed from the title.
C5_AfterBeforeDays ==
  Done =>
    \A n \in 1..MaxN :
      /\ text \in AfterDaysTexts(n) => OneEventDated({IsoOfDay(z + n) : z \in NowDays})
      /\ text \in BeforeDaysTexts(n) => OneEventDated({IsoOfDay(z - n) : z \in NowDays})
      /\ text \in {"Call after " \o String(n) \o " days", "Call after 3 days at 4pm to 5pm"}
           => IsSuccessOutcome /\ Events[1].title = "Call"
      /\ text = "Event before " \o String(n) \o " days"
           => IsSuccessOutcome /\ Events[1].title = "Event"

\* the first day of the month after that of day z, and the first day of the
\* year after that of day z
FirstOfNextMonth(z) ==
  LET c == CivilFromDay(z)
  IN  IF c.month = 11 THEN IsoText(c.year + 1, 1, 1) ELSE IsoText(c.year, c.month + 2, 1)

FirstOfNextYear(z) == IsoText(CivilFromDay(z).year + 1, 1, 1)

\* C6: 'next month' gives one event dated the first day of the month after
\* now's month (December rolls into January), 'next year' one dated January 1
\* of the year after now's year, and the phrase is removed from the title.
C6_NextMonthNextYear ==
  Done =>
    /\ text \in NextMonthTexts => OneEventDated({FirstOfNextMonth(z) : z \in Todays})
    /\ text \in NextYearTexts => OneEventDated({FirstOfNextYear(z) : z \in Todays})
    /\ text = "Review next month" => IsSuccessOutcome /\ Events[1].title = "Review"
    /\ text = "Conference next year" => IsSuccessOutcome /\ Events[1].title = "Conference"

\* C7: absolute-date round trip: a date written with its year as YYYY-MM-DD,
\* MM/DD/YYYY, 'Month D YYYY' or 'D Month YYYY' gives one event dated exactly
\* that calendar date, in every local time zone.
C7_AbsoluteRoundTrip ==
  Done =>
    \A y \in Years, m \in Months :
      \A d \in DaysOf(y, m) :
        text \in ExplicitTexts(y, m, d) => OneEventDated({IsoText(y, m, d)})

\* the years that 'the current year' may denote
CurrentYears == {CivilFromDay(z).year : z \in Todays}

\* C8: year defaulting: a date written without a year as M/D, 'Month D' or
\* 'D Month' gives the given month and day in the current year of the clock.
C8_YearDefaulting ==
  Done =>
    \A m \in Months :
      \A d \in DaysOfAnyYear(m) :
        text \in NoYearTexts(m, d) => OneEventDated({IsoText(y, m, d) : y \in CurrentYears})

IsPm(mer) == mer \in {"pm", "PM", " pm"}
IsAm(mer) == mer \in {"am", "AM", " am"}

\* the time that the meridiem rule assigns to hour h, minutes mi and mer
ExpectedTime(h, mi, mer) ==
  LET hh == IF IsPm(mer) /\ h \in 1..11 THEN h + 12
            ELSE IF IsAm(mer) /\ h = 12 THEN 0
            ELSE h
      mm == IF mi = <<>> THEN 0 ELSE mi[1]
  IN  padStart(String(hh), 2) \o ":" \o padStart(String(mm), 2)

\* the hours, minutes and meridiems of the time tokens of the inputs
TimeCases ==
  UNION {HoursFor(mer) \X MinuteOpts \X {mer} : mer \in Meridiems \cup {""}}

\* C9: meridiem normalization: 'at H[:MM][am|pm]' gives the time HH:MM, zero
\* padded, where pm adds 12 to the hours 1..11 and leaves 12, am maps 12 to 00
\* and leaves the other hours, no meridiem keeps the hour, and omitted
\* minutes are 00.
C9_MeridiemNormalization ==
  Done =>
    \A c \in TimeCases :
      text = TimeText("at", c[1], c[2], c[3]) =>
        IsSuccessOutcome /\ Events[1].time = <<ExpectedTime(c[1], c[2], c[3])>>

C9_Witness ==
  /\ Done /\ text = TimeText("at", 12, <<>>, "pm")
  /\ IsSuccessOutcome /\ Events[1].time = <<"12:00">>

\* C10: the start time may be introduced by 'from': 'from H[:MM][am|pm]' in
\* a text with a recognised date sets the time to the normalized HH:MM.
C10_FromIntroducesTime ==
  Done =>
    \A c \in TimeCases :
      text = TimeText("from", c[1], c[2], c[3]) =>
        IsSuccessOutcome /\ Events[1].time = <<ExpectedTime(c[1], c[2], c[3])>>

\* C11: time range: a time followed by 'to H[:MM][am|pm]' gives endTime, the
\* second time normalized on its own meridiem, and endTime is present only
\* when time is present.
C11_TimeRange ==
  Done =>
    /\ text = "Call today at 4pm to 5pm" =>
         IsSuccessOutcome /\ Events[1].time = <<"16:00">> /\ Events[1].endTime = <<"17:00">>
    /\ text = "Call today at 11am to 1pm" =>
         IsSuccessOutcome /\ Events[1].time = <<"11:00">> /\ Events[1].endTime = <<"01:00">>
    /\ text = "Workshop today from 9am to 5pm" =>
         IsSuccessOutcome /\ Events[1].endTime = <<"17:00">>
    /\ Events # <<>> /\ Events[1].endTime # <<>> => Events[1].time # <<>>

RECURSIVE ContainsAt(_, _, _)
ContainsAt(s, part, i) ==
  IF i + Len(part) - 1 > Len(s) THEN FALSE
  ELSE IF SubSeq(s, i, i + Len(part) - 1) = part THEN TRUE
  ELSE ContainsAt(s, part, i + 1)

Contains(s, part) == ContainsAt(s, part, 1)

\* the texts of the inputs in which a date pattern matches
DatedTexts ==
  UNION {DayWordTexts(w) : w \in {"today", "tomorrow", "yesterday"}}
  \cup UNION {InDaysTexts(n) : n \in InDaysNs}
  \cup WeekdayTexts \cup ExplicitDateTexts \cup NoYearDateTexts \cup OutOfRangeDateTexts

HasTimeToken(s) == Contains(s, " at ") \/ Contains(s, " from ")

\* C12: partial recognition: a text with a date pattern and no time token
\* gives exactly one event, without time and endTime, never UNRECOGNIZED.
C12_DateWithoutTime ==
  Done /\ text \in DatedTexts /\ ~HasTimeToken(text) =>
    IsSuccessOutcome /\ Events[1].time = <<>> /\ Events[1].endTime = <<>>

\* texts of which the date and time tokens leave a remainder, each with the
\* remainder
DayWordTitleCases ==
  {<<"Stand-up today", "Stand-up">>, <<"Call TODAY at 3pm", "Call">>,
   <<"Meeting tomorrow", "Meeting">>, <<"Book meeting Tomorrow at 10am", "Book meeting">>,
   <<"Missed call yesterday", "Missed call">>}

RelativeTitleCases ==
  {<<"Doctor In " \o String(n) \o " days", "Doctor">> : n \in InDaysNs}
  \cup {<<"Gym next " \o w, "Gym">> : w \in Weekdays}

ExplicitTitleCases(y, m, d) ==
  (IsoTexts(y, m, d) \X {"Flight"}) \cup (UsTexts(y, m, d) \X {"Event"})
  \cup ((MonthDayYearTexts(y, m, d) \cup DayMonthYearTexts(y, m, d)) \X {"Dentist"})

NoYearTitleCases(m, d) ==
  (UsNoYearTexts(m, d) \X {"Party"}) \cup (MonthDayTexts(m, d) \X {"Dentist"})
  \cup (DayMonthTexts(m, d) \X {"dentist"})

AbsoluteTitleCases ==
  UNION {UNION {ExplicitTitleCases(y, m, d) : d \in DaysOf(y, m)} : y \in Years, m \in Months}
  \cup UNION {UNION {NoYearTitleCases(m, d) : d \in DaysOfAnyYear(m)} : m \in Months}

TimeTitleCases == {<<TimeText("at", c[1], c[2], c[3]), "Call">> : c \in TimeCases}

TitleCases ==
  DayWordTitleCases \cup RelativeTitleCases \cup AbsoluteTitleCases \cup TimeTitleCases

\* texts that consist of date and time tokens only, each with its trimmed form
ConsumedCases ==
  {<<"today", "today">>, <<"tomorrow", "tomorrow">>, <<"yesterday", "yesterday">>,
   <<" YESTERDAY ", "YESTERDAY">>}
  \cup {<<"in  " \o String(n) \o " day at 9am", "in  " \o String(n) \o " day at 9am">> :
          n \in InDaysNs}
  \cup {<<"Next  " \o w \o " at 6pm", "Next  " \o w \o " at 6pm">> : w \in Weekdays}

TitleIs(cases) ==
  Done /\ Events # <<>> => \A c \in cases : text = c[1] => Events[1].title = c[2]

C14_TitleNeverEmpty ==
  Done /\ Events # <<>> =>
    /\ Len(Events[1].title) > 0
    /\ \A c \in ConsumedCases : text = c[1] => Events[1].title = c[2]

C14_Witness ==
  /\ Done /\ text = " YESTERDAY "
  /\ IsSuccessOutcome /\ Events[1].title = "YESTERDAY"

\* s is YYYY-MM-DD and denotes a day of the Gregorian calendar
IsCalendarDate(s) ==
  /\ Len(s) = 10
  /\ AllDigits(SubSeq(s, 1, 4)) /\ CharAt(s, 5) = "-"
  /\ AllDigits(SubSeq(s, 6, 7)) /\ CharAt(s, 8) = "-"
  /\ AllDigits(SubSeq(s, 9, 10))
  /\ DecimalValue(SubSeq(s, 6, 7)) \in 1..12
  /\ DecimalValue(SubSeq(s, 9, 10)) \in
       1..DaysInMonth(DecimalValue(SubSeq(s, 1, 4)), DecimalValue(SubSeq(s, 6, 7)))

\* C15: event date invariant: the date of every event is a string YYYY-MM-DD
\* that denotes a valid calendar date, also for large day offsets and date
\* components out of range.
C15_EventDateIsCalendarDate ==
  Done /\ Events # <<>> => IsCalendarDate(Events[1].date)

\* s is HH:MM with HH in 00..23 and MM in 00..59
IsClockTime(s) ==
  /\ Len(s) = 5
  /\ AllDigits(SubSeq(s, 1, 2)) /\ CharAt(s, 3) = ":" /\ AllDigits(SubSeq(s, 4, 5))
  /\ DecimalValue(SubSeq(s, 1, 2)) \in 0..23
  /\ DecimalValue(SubSeq(s, 4, 5)) \in 0..59

\* C16: event time invariant: time and endTime, when present, are 24-hour
\* HH:MM strings with HH in 00..23 and MM in 00..59, for every digit sequence
\* that the time pattern accepts.
C16_EventTimeIsClockTime ==
  Done /\ Events # <<>> =>
    /\ Events[1].time # <<>> => IsClockTime(Events[1].time[1])
    /\ Events[1].endTime # <<>> => IsClockTime(Events[1].endTime[1])

\* C18: onParsed notification rule: after the first render and after every
\* change of the input text and every other handler, onParsed has been
\* invoked with the parsed events when the input text is not blank, and has
\* not been invoked when it is empty or whitespace only.
C18_OnParsedRule ==
  pc \in {"mounted", "crashed"} =>
    IF text \in BlankTexts THEN calls.onParsed = <<>>
    ELSE calls.onParsed = <<render(text, clock, tz).events>>

\* C19: confirm dispatch: Done invokes onDateRangeChange with {start, end}
\* and not onDateChange when both ends are selected, onDateChange with the
\* start and not onDateRangeChange when only a start is selected, neither
\* when nothing is selected, and closes the picker in all three cases.
C19_ConfirmDispatch ==
  [][Confirm =>
       /\ ~showPicker'
       /\ rangeStart # <<>> /\ rangeEnd # <<>> =>
            /\ calls'.onDateRangeChange = <<[start |-> rangeStart[1], end |-> rangeEnd[1]]>>
            /\ calls'.onDateChange = <<>>
       /\ rangeStart # <<>> /\ rangeEnd = <<>> =>
            /\ calls'.onDateChange = rangeStart
            /\ calls'.onDateRangeChange = <<>>
       /\ rangeStart = <<>> =>
            /\ calls'.onDateChange = <<>>
            /\ calls'.onDateRangeChange = <<>>]_vars

C19_Witness ==
  /\ pc = "mounted" /\ ~showPicker
  /\ calls.onDateRangeChange = <<[start |-> "2026-12-01", end |-> "2026-12-02"]>>
  /\ calls.onDateChange = <<>>

\* C20: range ordering invariant: whenever rangeEnd is set, rangeStart is set
\* and is less than rangeEnd as a string, and so is the start of every
\* DateRange passed to onDateRangeChange.
C20_RangeOrdered ==
  /\ rangeEnd # <<>> => rangeStart # <<>> /\ StringLess(rangeStart[1], rangeEnd[1])
  /\ calls.onDateRangeChange # <<>> =>
       StringLess(calls.onDateRangeChange[1].start, calls.onDateRangeChange[1].end)

\* the range completed by a tap on a day before the start
C20_Witness ==
  /\ pc = "mounted" /\ showPicker
  /\ parsedDate(result) = <<"2027-01-01">>
  /\ rangeStart = <<"2026-12-02">> /\ rangeEnd = <<"2027-01-01">>

\* the first day after day today that falls on weekday w
NextOn(w, today) ==
  today + (CHOOSE k \in 1..7 : WeekDay(today + k) = WEEKDAY_INDEX(toLowerCase(w)))

\* the days that 'today' denotes at the instant now: the UTC day and the
\* local day of that one reading of the clock
TodaysAt(now) == {now.day, LocalDay(now, tz)}

\* C21: one clock reading per parse: whatever the advance of the clock
\* during the call, across midnight included, there is one instant now,
\* between the start and the end of the call, such that the date of 'next W'
\* is the first day on weekday W after the today of that instant; the date
\* never falls on another weekday.
C21_SingleClockReading ==
  Done =>
    \A w \in Weekdays :
      text \in NextWeekdayTexts(w) =>
        \E now \in {now0, clock} :
          \E today \in TodaysAt(now) : OneEventDated({IsoOfDay(NextOn(w, today))})

\* C22: relative precedence: of two relative patterns in one text the date
\* is that of the pattern that comes first in the order today, tomorrow,
\* yesterday, in N days, after N days, before N days, next month, next year,
\* next weekday, wherever the patterns stand in the text.
C22_RelativePrecedence ==
  Done =>
    /\ \A c \in RelativeOrderCases :
         text = c[1] => OneEventDated({IsoOfDay(z + c[2]) : z \in NowDays})
    /\ text \in NextMonthFirstTexts => OneEventDated({FirstOfNextMonth(z) : z \in Todays})
    /\ text \in NextYearFirstTexts => OneEventDated({FirstOfNextYear(z) : z \in Todays})

\* the date of the text txt alone in a call with the same readings of the
\* clock
DateAlone(txt) == parseNaturalLanguage(txt, now0, clock, tz).events[1].date

C24_AbsolutePrecedence ==
  Done =>
    \A c \in AbsoluteOrderCases :
      text = c[1] =>
        /\ OneEventDated({DateAlone(c[2])})
        /\ tz = 0 => Events[1].date = c[3]

C24_Witness ==
  /\ Done /\ text = "03/04/2025 or 2025-06-07" /\ tz = 0
  /\ IsSuccessOutcome /\ Events[1].date = "2025-06-07"

\* absolute dates with a month or day out of range, each with the year,
\* month and day as written
OutOfRangeCases ==
  {<<"Event 13/45/2025", 2025, 13, 45>>, <<"Event 99/99/9999", 9999, 99, 99>>,
   <<"Flight 2025-02-30", 2025, 2, 30>>, <<"Flight 0050-13-32", 50, 13, 32>>,
   <<"Dentist March 0", 2026, 3, 0>>}

\* C25: out-of-range date components are normalized, not rejected: an
\* absolute date with a month or day beyond the calendar gives exactly one
\* event without warning, dated the calendar date that the overflow rolls
\* into.
C25_OutOfRangeNormalized ==
  Done /\ tz = 0 =>
    \A c \in OutOfRangeCases :
      text = c[1] => OneEventDated({IsoOfDay(MakeDay(c[2], c[3] - 1, c[4]))})

\* the day number of the calendar date YYYY-MM-DD
DayOfDate(s) ==
  MakeDay(DecimalValue(SubSeq(s, 1, 4)), DecimalValue(SubSeq(s, 6, 7)) - 1,
          DecimalValue(SubSeq(s, 9, 10)))

\* the earlier and the later of two calendar dates
MinDate(a, b) == IF DayOfDate(a) <= DayOfDate(b) THEN a ELSE b
MaxDate(a, b) == IF DayOfDate(a) <= DayOfDate(b) THEN b ELSE a

\* the selection after a tap on date d
TapGives(d) ==
  IF rangeStart = <<>> \/ rangeEnd # <<>>
  THEN rangeStart' = <<d>> /\ rangeEnd' = <<>>
  ELSE IF d = rangeStart[1]
  THEN rangeStart' = <<>> /\ rangeEnd' = <<>>
  ELSE /\ rangeStart' = <<MinDate(rangeStart[1], d)>>
       /\ rangeEnd' = <<MaxDate(rangeStart[1], d)>>

\* C26: day-tap transition: a tap on date d with nothing selected or with
\* a complete range selects start = d and no end; with only a start s
\* selected it gives the range (min(s, d), max(s, d)) when d differs from s
\* and clears the selection when d equals s.
C26_DayTapTransition ==
  [][DayPress =>
       \E day \in TapDays : TapGives(formatDateStr(pickerYear, pickerMonth, day))]_vars

\* the selection cleared by a second tap on the start, after a range
C26_Witness ==
  /\ pc = "mounted" /\ showPicker
  /\ parsedDate(result) = <<"2027-01-01">>
  /\ pickerMonth = 11 /\ rangeStart = <<>> /\ rangeEnd = <<>>

\* C27: opening the picker resets the selection: after any taps, cancels
\* and confirms the calendar icon leaves rangeEnd unset, and with a parsed
\* event sets rangeStart to its date and the month shown to that date's
\* year and month, without one sets rangeStart to none and the month shown to
\* the current month.
C27_OpenPickerResets ==
  [][OpenPicker =>
       /\ rangeEnd' = <<>>
       /\ IF Events # <<>>
          THEN /\ rangeStart' = <<Events[1].date>>
               /\ pickerYear' = DecimalValue(SubSeq(Events[1].date, 1, 4))
               /\ pickerMonth' = DecimalValue(SubSeq(Events[1].date, 6, 7)) - 1
          ELSE /\ rangeStart' = <<>>
               /\ pickerYear' = getFullYear(clock, tz)
               /\ pickerMonth' = getMonth(clock, tz)]_vars

\* C28: Cancel has no outward effect: Cancel, and the request to close the
\* modal, closes the picker in any state of it and invokes neither
\* onDateChange nor onDateRangeChange; Done is pressed only in an open
\* picker, and a picker that opens has no end selected and as start at most
\* the date of the parsed event, so that a selection abandoned by Cancel is
\* not reported by a later Done unless it is selected again.
C28_CancelNoOutwardEffect ==
  [][/\ Cancel =>
          /\ ~showPicker'
          /\ calls'.onDateChange = <<>> /\ calls'.onDateRangeChange = <<>>
     /\ Confirm => showPicker
     /\ ~showPicker /\ showPicker' =>
          rangeEnd' = <<>> /\ rangeStart' \in {<<>>, parsedDate(result')}]_vars

\* the picker closed with a range selected and no callback invoked
C28_Witness ==
  /\ pc = "mounted" /\ ~showPicker
  /\ rangeStart = <<"2026-12-01">> /\ rangeEnd = <<"2027-01-01">>
  /\ calls.onDateChange = <<>> /\ calls.onDateRangeChange = <<>>

\* C29: month navigation keeps a valid month: after a previous-month or
\* next-month press the month index is in 0..11, previous from January gives
\* December of the year before, next from December January of the year
\* after, and each press moves the pair (year, month) by exactly one month,
\* back or forth, so that previous followed by next restores the pair; the
\* selection is unchanged.
C29_MonthNavigation ==
  [][/\ PrevMonth \/ NextMonth =>
          /\ pickerMonth' \in 0..11
          /\ rangeStart' = rangeStart /\ rangeEnd' = rangeEnd
     /\ PrevMonth =>
          /\ MonthNumber(pickerYear', pickerMonth') = MonthNumber(pickerYear, pickerMonth) - 1
          /\ pickerMonth = 0 => pickerMonth' = 11 /\ pickerYear' = pickerYear - 1
     /\ NextMonth =>
          /\ MonthNumber(pickerYear', pickerMonth') = MonthNumber(pickerYear, pickerMonth) + 1
          /\ pickerMonth = 11 => pickerMonth' = 0 /\ pickerYear' = pickerYear + 1]_vars

\* January 2027 shown after next from the current month, December 2026, with
\* the start selected in December
C29_Witness ==
  /\ pc = "mounted" /\ showPicker /\ text = "no date"
  /\ pickerYear = 2027 /\ pickerMonth = 0
  /\ rangeStart = <<"2026-12-01">> /\ rangeEnd = <<>>

\* the handlers of the picker, which leave the input text as it is
PickerInteraction ==
  OpenPicker \/ DayPress \/ Confirm \/ Cancel \/ PrevMonth \/ NextMonth

\* C30: picker interactions do not re-notify: opening the picker, a tap on
\* a day, month navigation, Cancel and Done cause no invocation of onParsed;
\* onParsed is invoked at most once per change of the input text.
C30_PickerDoesNotNotify ==
  [][/\ PickerInteraction => calls'.onParsed = <<>>
     /\ ChangeText => Len(calls'.onParsed) <= 1]_vars

====
